---------------------------- MODULE Spec2Model ----------------------------
(***************************************************************************)
(* A model of Genosma.py: the multi-agent pipeline                         *)
(*   comprehend -> plan -> examine -> gate -> execute                      *)
(* with its knowledge base (plan cache) and its audit log.                 *)
(*                                                                         *)
(* Strings are finite sequences of character codes.  An optional value     *)
(* (Python's None, an absent dict key) is a sequence of length 0 or 1.     *)
(* The LLM, the search tool, the shell and the human are inputs: each      *)
(* call draws its result from a small set.                                 *)
(***************************************************************************)
EXTENDS Integers, Sequences, FiniteSets, TLC

(***************************************************************************)
(* Bounds of the model.                                                    *)
(***************************************************************************)
\* the longest plan an LLM reply carries
MaxSteps == 3
\* how many requests are processed one after the other (runs of main)
MaxRequests == 2
\* direct calls: add_to_kb and execute are called on a cache of fewer entries
MaxKb == 2

(***************************************************************************)
(* Program constants.                                                      *)
(***************************************************************************)
\* find_similar_plan(query, threshold=0.6): the cutoff as the fraction 6/10
ThresholdNum == 6
ThresholdDen == 10

(***************************************************************************)
(* Values.                                                                 *)
(***************************************************************************)
None == <<>>
Some(x) == <<x>>

\* the queries of the direct calls: "ab", "aba", "ba".  To "aba" the stored
\* "ab" and "ba" are equally close (0.8); "ba" is not close to "ab" (0.5).
Queries == { <<1, 2>>, <<1, 2, 1>>, <<2, 1>> }

\* the requests the pipeline is run on: "ab" and "aba"
Requests == { <<1, 2>>, <<1, 2, 1>> }

\* the commands of a plan of n steps: "c1", ..., "cn"
StepsOf(n) == [i \in 1..n |-> i]
StepLists == { StepsOf(n) : n \in 0..MaxSteps }

Min(a, b) == IF a <= b THEN a ELSE b

SubSeqFrom(s, i) == IF i > Len(s) THEN <<>> ELSE SubSeq(s, i, Len(s))


(***************************************************************************)
(* difflib, as find_similar_plan uses it: SequenceMatcher(a = a stored     *)
(* query, b = the query looked up).ratio() = 2 * M / (len a + len b), M    *)
(* the size of the matching blocks found by taking the longest common      *)
(* block (earliest in a, then earliest in b) and recursing on both sides.  *)
(* Ranges are half-open, lo..hi-1.                                         *)
(***************************************************************************)
RECURSIVE RunLen(_, _, _, _, _, _)
RunLen(a, b, i, j, ahi, bhi) ==
  IF i < ahi /\ j < bhi /\ a[i] = b[j]
  THEN 1 + RunLen(a, b, i + 1, j + 1, ahi, bhi)
  ELSE 0

\* of the common runs len[<<i, j>>], the longest, then the one earliest in a,
\* then earliest in b: <<i, j, k>>, or <<alo, blo, 0>> when there is none
PickLongest(len, alo, blo) ==
  LET starts  == DOMAIN len
      best    == IF starts = {} THEN 0
                 ELSE CHOOSE k \in { len[p] : p \in starts } :
                        \A p \in starts : len[p] <= k
      longest == { p \in starts : len[p] = best }
      i       == CHOOSE x \in { p[1] : p \in longest } :
                   \A p \in longest : x <= p[1]
      j       == CHOOSE y \in { p[2] : p \in { q \in longest : q[1] = i } } :
                   \A p \in { q \in longest : q[1] = i } : y <= p[2]
  IN IF best = 0 THEN <<alo, blo, 0>> ELSE <<i, j, best>>

find_longest_match(a, b, alo, ahi, blo, bhi) ==
  PickLongest([p \in (alo..(ahi - 1)) \X (blo..(bhi - 1)) |->
                 RunLen(a, b, p[1], p[2], ahi, bhi)], alo, blo)

\* get_matching_blocks: the block m, and the blocks left and right of it
RECURSIVE MatchCount(_, _, _, _, _, _)
BlocksAround(a, b, alo, ahi, blo, bhi, m) ==
  IF m[3] = 0 THEN 0
  ELSE m[3] + MatchCount(a, b, alo, m[1], blo, m[2])
            + MatchCount(a, b, m[1] + m[3], ahi, m[2] + m[3], bhi)

MatchCount(a, b, alo, ahi, blo, bhi) ==
  CHOOSE n \in { BlocksAround(a, b, alo, ahi, blo, bhi, m) :
                   m \in { find_longest_match(a, b, alo, ahi, blo, bhi) } } : TRUE

\* ratio() as the fraction <<numerator, denominator>>; 1.0 for two empty strings
ratio(a, b) ==
  IF Len(a) + Len(b) = 0 THEN <<1, 1>>
  ELSE <<2 * MatchCount(a, b, 1, Len(a) + 1, 1, Len(b) + 1), Len(a) + Len(b)>>

FracLess(r, s) == r[1] * s[2] < s[1] * r[2]

\* Python's order on strings: by the first differing character, a prefix first
StrLess(s, t) ==
  \E k \in 0..Min(Len(s), Len(t)) :
     /\ \A i \in 1..k : s[i] = t[i]
     /\ \/ (k = Len(s) /\ k < Len(t))
        \/ (k < Len(s) /\ k < Len(t) /\ s[k + 1] < t[k + 1])

\* s.ratio() >= cutoff, r the ratio
AboveCutoff(r) == r[1] * ThresholdDen >= ThresholdNum * r[2]

\* a faulty heapq.nlargest: the least pair of those above the cutoff
Lowest(score) ==
  LET close == { x \in DOMAIN score : AboveCutoff(score[x]) }
  IN IF close = {} THEN None
     ELSE Some(CHOOSE x \in close : \A y \in close \ {x} :
                 \/ FracLess(score[x], score[y])
                 \/ (~FracLess(score[y], score[x]) /\ StrLess(x, y)))

\* heapq.nlargest(1, [(score, x), ...]): the greatest pair, if any; score[x] is
\* the ratio of the candidate x
Largest(score) ==
  LET close == { x \in DOMAIN score : AboveCutoff(score[x]) }
  IN IF close = {} THEN None
     ELSE Some(CHOOSE x \in close : \A y \in close \ {x} :
                 \/ FracLess(score[y], score[x])
                 \/ (~FracLess(score[x], score[y]) /\ StrLess(y, x)))

\* get_close_matches(word, possibilities, n=1, cutoff)
get_close_matches(word, possibilities) ==
  Largest([x \in { possibilities[i] : i \in 1..Len(possibilities) } |->
             ratio(x, word)])

(***************************************************************************)
(* Knowledge base: the content of KB_FILE, a list of {query, plan}.        *)
(***************************************************************************)
add_to_kb(kbv, query, p) == Append(kbv, [query |-> query, plan |-> p])

\* a faulty lines 43-47: the loop keeps the last item whose query is the match
LastPlan(kbv, match) ==
  IF match = None THEN None
  ELSE Some(kbv[CHOOSE i \in 1..Len(kbv) :
                  /\ kbv[i].query = match[1]
                  /\ \A k \in (i + 1)..Len(kbv) : kbv[k].query # match[1]].plan)

\* lines 43-47: the plan of the first item whose query is the match
FirstPlan(kbv, match) ==
  IF match = None THEN None
  ELSE Some(kbv[CHOOSE i \in 1..Len(kbv) :
                  /\ kbv[i].query = match[1]
                  /\ \A k \in 1..(i - 1) : kbv[k].query # match[1]].plan)

find_similar_plan(kbv, query) ==
  IF kbv = <<>> THEN None
  ELSE CHOOSE found \in
         { FirstPlan(kbv, match) :
             match \in { get_close_matches(query,
                                           [i \in 1..Len(kbv) |-> kbv[i].query]) } } :
         TRUE

(***************************************************************************)
(* Collaborators.  An LLM reply either raises, or is text: with no {...}   *)
(* in it, with a {...} that json.loads rejects, or with a JSON object.     *)
(***************************************************************************)
Raise == [kind |-> "raise"]
TextReplies == { [kind |-> "nojson"], [kind |-> "badjson"] }
JsonReply(o) == [kind |-> "json", obj |-> o]

\* re.search(r'\{.*\}', response) and json.loads of the match
ExtractJson(reply) == IF reply.kind = "json" THEN Some(reply.obj) ELSE None

SearchOutcomes == { "ok", "raise" }
SearchDecisions == { "NO_SEARCH_NEEDED", "terms", "raise" }

(***************************************************************************)
(* ComprehensionAgent.analyze                                              *)
(***************************************************************************)
\* a faulty lines 104-110: the default does not carry the request
DefaultComprehensionNoIntent(user_input) ==
  [intent |-> <<>>, task_type |-> "other", complexity |-> "simple",
   requirements |-> <<>>, risks |-> <<>>]

\* lines 104-110
DefaultComprehension(user_input) ==
  [intent |-> user_input, task_type |-> "other", complexity |-> "simple",
   requirements |-> <<>>, risks |-> <<>>]

ComprehensionObjs ==
  { [intent |-> <<1>>, task_type |-> "installation", complexity |-> "moderate",
     requirements |-> <<>>, risks |-> <<>>] }

ComprehensionReplies ==
  {Raise} \cup TextReplies \cup { JsonReply(o) : o \in ComprehensionObjs }

\* decision: the first LLM reply; sr: what the search tool does; reply: the
\* second LLM reply.  A search failure is caught; an LLM failure is not.
analyze(user_input, decision, sr, reply) ==
  LET searched == decision \notin { "NO_SEARCH_NEEDED", "raise" }
      parsed   == ExtractJson(reply)
  IN [raised   |-> decision = "raise" \/ reply.kind = "raise",
      searched |-> searched,
      value    |-> IF parsed # None THEN parsed[1]
                   ELSE DefaultComprehension(user_input)]

(***************************************************************************)
(* PlanningAgent.create_plan                                               *)
(***************************************************************************)
DefaultPlan ==
  [steps |-> <<>>, description |-> "Failed to create plan",
   estimated_time |-> "unknown", reversible |-> FALSE]

PlanObj(st) ==
  [steps |-> st, description |-> "plan", estimated_time |-> "1 min",
   reversible |-> TRUE]

PlanObjs == { PlanObj(st) : st \in StepLists }

PlanReplies == {Raise} \cup TextReplies \cup { JsonReply(o) : o \in PlanObjs }

\* the cache is consulted first, whatever error_context is (lines 121-124)
CacheLookup(kbv, user_input, error_context) == find_similar_plan(kbv, user_input)

NeedsSearch(cd) == cd.task_type = "installation" \/ cd.complexity = "complex"

\* what the planning prompt carries (lines 135-152)
PlanningPrompt(user_input, cd, search_context, error_context) ==
  [request |-> user_input, comprehension |-> cd,
   search_context |-> search_context, error |-> error_context]

\* lines 122-161, existing the result of the lookup
PlanFrom(existing, user_input, cd, error_context, sr, reply) ==
  LET searched == NeedsSearch(cd)
      context  == IF ~searched THEN ""
                  ELSE IF sr = "ok" THEN "Reference" ELSE "Search failed"
      parsed   == ExtractJson(reply)
  IN IF existing # None
     THEN [raised |-> FALSE, from_cache |-> TRUE, searched |-> FALSE,
           prompt |-> None, plan |-> existing[1]]
     ELSE [raised |-> reply.kind = "raise", from_cache |-> FALSE,
           searched |-> searched,
           prompt |-> Some(PlanningPrompt(user_input, cd, context, error_context)),
           plan |-> IF parsed # None THEN parsed[1] ELSE DefaultPlan]

create_plan(kbv, user_input, cd, error_context, sr, reply) ==
  PlanFrom(CacheLookup(kbv, user_input, error_context),
           user_input, cd, error_context, sr, reply)

(***************************************************************************)
(* ExaminerAgent                                                           *)
(***************************************************************************)
\* a faulty lines 193-200: the default of a failed analysis lets the plan run
DefaultAnalysisApproves(p) ==
  [risk_level |-> "high", requires_permission |-> "true",
   dangerous_commands |-> p.steps, safe_commands |-> <<>>,
   recommendation |-> "approve", warning_message |-> "Analysis failed"]

\* lines 193-200
DefaultAnalysis(p) ==
  [risk_level |-> "high", requires_permission |-> "true",
   dangerous_commands |-> p.steps, safe_commands |-> <<>>,
   recommendation |-> "request_permission", warning_message |-> "Analysis failed"]

\* a key the reply's object does not carry has the value "absent"
AnalysisObjs ==
  { [risk_level |-> "low", requires_permission |-> rp,
     dangerous_commands |-> <<>>, safe_commands |-> <<>>,
     recommendation |-> rec, warning_message |-> ""] :
       rp \in { "true", "false", "absent" },
       rec \in { "approve", "request_permission", "deny", "absent" } }

AnalysisReplies == {Raise} \cup TextReplies \cup { JsonReply(o) : o \in AnalysisObjs }

analyze_plan(p, reply) ==
  LET parsed == ExtractJson(reply)
  IN [raised |-> reply.kind = "raise",
      value  |-> IF parsed # None THEN parsed[1] ELSE DefaultAnalysis(p)]

\* analysis.get("requires_permission", True), line 303
RequiresPermission(a) == a.requires_permission # "false"

\* request_user_permission up to the prompt: "deny", "approve", "KeyError"
\* (analysis["recommendation"] of an absent key) or "prompt"
Recommendation(a) ==
  CASE a.recommendation = "absent"  -> "KeyError"
    [] a.recommendation = "deny"    -> "deny"
    [] a.recommendation = "approve" -> "approve"
    [] OTHER                        -> "prompt"

\* what the human types, and input(...).strip().lower() of it
RawAnswers == { "y", " YES ", "n", "No", "maybe", "" }
StripLower(raw) ==
  CASE raw = " YES " -> "yes"
    [] raw = "No"    -> "no"
    [] OTHER         -> raw

\* a faulty lines 209-213: no answer is recognised, the loop never returns
AnswerUnrecognised(raw) == "again"

\* one turn of the while loop, lines 209-213: "yes", "no" or "again"
Answer(raw) ==
  IF StripLower(raw) \in { "y", "yes" } THEN "yes"
  ELSE IF StripLower(raw) \in { "n", "no" } THEN "no"
  ELSE "again"

(***************************************************************************)
(* ExecutionAgent.execute, one turn of its loop                            *)
(***************************************************************************)
ShellOutcomes == { "success", "failed", "timeout" }

StepResult(cmd) == [command |-> cmd, status |-> "success"]

\* a faulty lines 229 and 231: remaining_steps = steps[idx:], the failed
\* command still in it
ErrorContextKeepsFailed(cmd, out, steps, idx) ==
  [command |-> cmd,
   error |-> IF out = "timeout" THEN "Timeout" ELSE "CalledProcessError",
   remaining_steps |-> SubSeqFrom(steps, idx + 1)]

\* lines 229 and 231: steps[idx+1:] of the 0-based idx is SubSeqFrom(idx + 2)
ErrorContext(cmd, out, steps, idx) ==
  [command |-> cmd,
   error |-> IF out = "timeout" THEN "Timeout" ELSE "CalledProcessError",
   remaining_steps |-> SubSeqFrom(steps, idx + 2)]

Outcome(status, res, ec) == [status |-> status, results |-> res, error_context |-> ec]

\* a faulty lines 224-231: the plan is stored once, after its last command,
\* and not after each command that succeeded
execute_step_store_at_end(kbv, user_query, p, res, idx, out) ==
  LET cmd == p.steps[idx + 1]
  IN IF out = "success"
     THEN [kb |-> IF idx + 1 = Len(p.steps) THEN add_to_kb(kbv, user_query, p)
                  ELSE kbv,
           results |-> Append(res, StepResult(cmd)),
           idx |-> idx + 1,
           ret |-> IF idx + 1 = Len(p.steps)
                   THEN Some(Outcome("success", Append(res, StepResult(cmd)), None))
                   ELSE None]
     ELSE [kb |-> kbv, results |-> res, idx |-> idx,
           ret |-> Some(Outcome(out, res, Some(ErrorContext(cmd, out, p.steps, idx))))]

\* a faulty lines 224-231: line 227 (add_to_kb) left out
execute_step_no_store(kbv, user_query, p, res, idx, out) ==
  LET cmd == p.steps[idx + 1]
  IN IF out = "success"
     THEN [kb |-> kbv,
           results |-> Append(res, StepResult(cmd)),
           idx |-> idx + 1,
           ret |-> IF idx + 1 = Len(p.steps)
                   THEN Some(Outcome("success", Append(res, StepResult(cmd)), None))
                   ELSE None]
     ELSE [kb |-> kbv, results |-> res, idx |-> idx,
           ret |-> Some(Outcome(out, res, Some(ErrorContext(cmd, out, p.steps, idx))))]

\* idx: the steps already run (enumerate's index); out: what the shell does
\* to steps[idx].  ret is the value returned, when the call returns here.
execute_step(kbv, user_query, p, res, idx, out) ==
  LET cmd == p.steps[idx + 1]
  IN IF out = "success"
     THEN [kb |-> add_to_kb(kbv, user_query, p),
           results |-> Append(res, StepResult(cmd)),
           idx |-> idx + 1,
           ret |-> IF idx + 1 = Len(p.steps)
                   THEN Some(Outcome("success", Append(res, StepResult(cmd)), None))
                   ELSE None]
     ELSE [kb |-> kbv, results |-> res, idx |-> idx,
           ret |-> Some(Outcome(out, res, Some(ErrorContext(cmd, out, p.steps, idx))))]

(***************************************************************************)
(* AuditorAgent                                                            *)
(***************************************************************************)
Record(stage, data) == [stage |-> stage, data |-> data]

\* a faulty lines 242-251: the file is opened for writing before it is read,
\* so the record written is the only one
audit_overwrites(logs, stage, data) == <<Record(stage, data)>>

\* lines 242-251: logs read, the record appended, the file written
audit(logs, stage, data) == Append(logs, Record(stage, data))

CountStatus(res, ok) ==
  Cardinality({ i \in 1..Len(res) : (res[i].status = "success") = ok })

Summary(e) ==
  [total_commands |-> 0, executed_commands |-> 0,
   success_count |-> CountStatus(e.results, TRUE),
   failed_count |-> CountStatus(e.results, FALSE),
   error_context |-> e.error_context]

(***************************************************************************)
(* State.                                                                  *)
(*   kb, log        the two files, which outlive a request                 *)
(*   pc, term       where process_request is, and how it ended             *)
(*   user_input ... execution, summary: its locals (optional values)       *)
(*   idx, results   the locals of execute's loop                           *)
(*   nreq           requests started so far                                *)
(*   obs            what the current request did (history, not program     *)
(*                  state): the cache and the length of the log at its     *)
(*                  start, the error_context of each create_plan call and  *)
(*                  of each planning prompt, the plans examined and        *)
(*                  executed, whether the examiner's reply held a JSON     *)
(*                  object, the commands run with what the shell did,      *)
(*                  whether the human was asked and the last answer        *)
(*   succeeded      the requests whose execution returned success, among   *)
(*                  the requests already finished                          *)
(*   ret            the value the last direct call returned                *)
(***************************************************************************)
VARIABLES kb, log, pc, term, nreq, user_input, comprehension, plan, analysis,
          idx, results, execution, summary, obs, succeeded, ret

vars == <<kb, log, pc, term, nreq, user_input, comprehension, plan, analysis,
          idx, results, execution, summary, obs, succeeded, ret>>

files  == <<kb, log>>
locals == <<user_input, comprehension, plan, analysis, idx, results,
            execution, summary>>

NoCall == [call |-> "none"]

NoObs(kbv, logs) ==
  [kb0 |-> kbv, log0 |-> Len(logs), from_cache |-> FALSE, plan_calls |-> <<>>,
   plan_llm |-> <<>>, plan_searches |-> 0, examined |-> <<>>,
   exam_parsed |-> "none", executed |-> <<>>, ran |-> <<>>,
   prompted |-> FALSE, answer |-> "none", raised_by |-> "none"]

Init ==
  /\ kb = <<>>
  /\ log = <<>>
  /\ pc = "idle"
  /\ term = "none"
  /\ nreq = 0
  /\ user_input = <<>>
  /\ comprehension = None
  /\ plan = None
  /\ analysis = None
  /\ idx = 0
  /\ results = <<>>
  /\ execution = None
  /\ summary = None
  /\ obs = NoObs(<<>>, <<>>)
  /\ succeeded = {}
  /\ ret = NoCall

LastSucceeded ==
  IF execution # None /\ execution[1].status = "success" THEN {user_input} ELSE {}

\* main(): one more request is handed to process_request
StartRequest ==
  /\ pc \in { "idle", "done" }
  /\ nreq < MaxRequests
  /\ \E r \in Requests : user_input' = r
  /\ nreq' = nreq + 1
  /\ pc' = "comprehend"
  /\ term' = "none"
  /\ comprehension' = None
  /\ plan' = None
  /\ analysis' = None
  /\ idx' = 0
  /\ results' = <<>>
  /\ execution' = None
  /\ summary' = None
  /\ obs' = NoObs(kb, log)
  /\ succeeded' = succeeded \cup LastSucceeded
  /\ UNCHANGED <<kb, log, ret>>

\* an exception leaves process_request
Raised(by) ==
  /\ pc' = "done"
  /\ term' = "raised"
  /\ obs' = [obs EXCEPT !.raised_by = by]

\* lines 288-289
Comprehend ==
  /\ pc = "comprehend"
  /\ \E decision \in SearchDecisions, sr \in SearchOutcomes,
        reply \in ComprehensionReplies :
       LET r == analyze(user_input, decision, sr, reply)
       IN IF r.raised
          THEN /\ Raised("comprehension")
               /\ UNCHANGED <<comprehension, log>>
          ELSE /\ comprehension' = Some(r.value)
               /\ log' = audit(log, "comprehension", r.value)
               /\ pc' = "plan"
               /\ term' = term
               /\ obs' = obs
  /\ UNCHANGED <<kb, nreq, user_input, plan, analysis, idx, results, execution,
                 summary, succeeded, ret>>

\* the error_context process_request passes to create_plan: none (line 292)
PassedErrorContext == None

\* of the prompt sent to the LLM, if one was, what it says of a failure
PromptErrors(prompt) == [i \in 1..Len(prompt) |-> prompt[i].error]

\* a faulty lines 293-297: lines 295-297 (the test of the steps) left out
PlannedNoEmptyCheck(r) ==
  LET o == [obs EXCEPT !.plan_calls = Append(@, PassedErrorContext),
                       !.from_cache = r.from_cache,
                       !.plan_llm = @ \o PromptErrors(r.prompt),
                       !.plan_searches = @ + (IF r.searched THEN 1 ELSE 0)]
  IN IF r.raised
     THEN /\ pc' = "done"
          /\ term' = "raised"
          /\ obs' = [o EXCEPT !.raised_by = "planning"]
          /\ UNCHANGED <<plan, log>>
     ELSE /\ plan' = Some(r.plan)
          /\ log' = audit(log, "plan_creation", r.plan)
          /\ obs' = o
          /\ pc' = "examine"
          /\ term' = term

\* lines 293-297, r what create_plan did
Planned(r) ==
  LET o == [obs EXCEPT !.plan_calls = Append(@, PassedErrorContext),
                       !.from_cache = r.from_cache,
                       !.plan_llm = @ \o PromptErrors(r.prompt),
                       !.plan_searches = @ + (IF r.searched THEN 1 ELSE 0)]
  IN IF r.raised
     THEN /\ pc' = "done"
          /\ term' = "raised"
          /\ obs' = [o EXCEPT !.raised_by = "planning"]
          /\ UNCHANGED <<plan, log>>
     ELSE /\ plan' = Some(r.plan)
          /\ log' = audit(log, "plan_creation", r.plan)
          /\ obs' = o
          /\ IF r.plan.steps = <<>>
             THEN pc' = "done" /\ term' = "no_plan"
             ELSE pc' = "examine" /\ term' = term

\* lines 291-297: create_plan(user_input, comprehension), that is PlanFrom of
\* the lookup, for each search outcome and LLM reply
Plan ==
  /\ pc = "plan"
  /\ \E existing \in { CacheLookup(kb, user_input, PassedErrorContext) } :
       \E sr \in SearchOutcomes, reply \in PlanReplies :
          \E r \in { PlanFrom(existing, user_input, comprehension[1],
                              PassedErrorContext, sr, reply) } : Planned(r)
  /\ UNCHANGED <<kb, nreq, user_input, comprehension, analysis, idx, results,
                 execution, summary, succeeded, ret>>

\* a faulty lines 203-207: the deny branch left out, a deny asks the human
GateOutcomeDenyAsks(a) ==
  IF ~RequiresPermission(a) THEN "exec"
  ELSE CASE Recommendation(a) = "approve"  -> "exec"
         [] Recommendation(a) = "KeyError" -> "KeyError"
         [] OTHER                          -> "prompt"

\* where line 303 and lines 203-207 send the request: "exec", "cancelled",
\* "KeyError" or "prompt"
GateOutcome(a) ==
  IF ~RequiresPermission(a) THEN "exec"
  ELSE CASE Recommendation(a) = "deny"     -> "cancelled"
         [] Recommendation(a) = "approve"  -> "exec"
         [] Recommendation(a) = "KeyError" -> "KeyError"
         [] OTHER                          -> "prompt"

\* line 309: execute(plan, user_input) is entered
EnterExecute(o) ==
  /\ pc' = "exec"
  /\ term' = term
  /\ obs' = [o EXCEPT !.executed = Append(@, plan[1])]

\* a faulty lines 304-306: the return after "Execution cancelled" left out,
\* so a refusal falls through to line 309
CancelledFallsThrough(o) ==
  /\ pc' = "exec"
  /\ term' = term
  /\ obs' = [o EXCEPT !.executed = Append(@, plan[1])]

\* lines 304-306: the gate said no
Cancelled(o) ==
  /\ pc' = "done"
  /\ term' = "cancelled"
  /\ obs' = o

\* lines 303-306, up to the prompt
Gate(a, o) ==
  CASE GateOutcome(a) = "exec"      -> EnterExecute(o)
    [] GateOutcome(a) = "cancelled" -> Cancelled(o)
    [] GateOutcome(a) = "KeyError"  ->
         pc' = "done" /\ term' = "raised" /\ obs' = [o EXCEPT !.raised_by = "gate"]
    [] OTHER ->
         pc' = "prompt" /\ term' = term /\ obs' = [o EXCEPT !.prompted = TRUE]

\* lines 299-306, up to the prompt
Examine ==
  /\ pc = "examine"
  /\ \E reply \in AnalysisReplies :
       LET r == analyze_plan(plan[1], reply)
           o == [obs EXCEPT !.examined = Append(@, plan[1]),
                            !.exam_parsed = IF reply.kind = "json" THEN "yes"
                                            ELSE IF reply.kind = "raise" THEN "none"
                                            ELSE "no"]
       IN IF r.raised
          THEN /\ pc' = "done"
               /\ term' = "raised"
               /\ obs' = [o EXCEPT !.raised_by = "examination"]
               /\ UNCHANGED <<analysis, log>>
          ELSE /\ analysis' = Some(r.value)
               /\ log' = audit(log, "plan_analysis", r.value)
               /\ Gate(r.value, o)
  /\ UNCHANGED <<kb, nreq, user_input, comprehension, plan, idx, results,
                 execution, summary, succeeded, ret>>

\* lines 208-213: one answer of the human
Prompt ==
  /\ pc = "prompt"
  /\ \E raw \in RawAnswers :
       LET o == [obs EXCEPT !.answer = Answer(raw)]
       IN CASE Answer(raw) = "yes" -> EnterExecute(o)
            [] Answer(raw) = "no"  -> Cancelled(o)
            [] OTHER               -> pc' = "prompt" /\ term' = term /\ obs' = o
  /\ UNCHANGED <<files, nreq, locals, succeeded, ret>>

\* a command the shell ran and what it did: "success" while execute goes on,
\* and the status execute returned with when the command was its last
Ran(cmd, e) ==
  [command |-> cmd, outcome |-> IF e = None THEN "success" ELSE e[1].status]

\* a faulty lines 310-312: the execution is logged only when it succeeded
AfterExecuteLogsSuccess(e) ==
  IF e = None
  THEN UNCHANGED <<log, summary, pc, term>>
  ELSE /\ log' = IF e[1].status = "success" THEN audit(log, "execution", e[1])
                 ELSE log
       /\ summary' = Some(Summary(e[1]))
       /\ pc' = "done"
       /\ term' = "summary"

\* lines 310-312, e the outcome execute returned, if it returned
AfterExecute(e) ==
  IF e = None
  THEN UNCHANGED <<log, summary, pc, term>>
  ELSE /\ log' = audit(log, "execution", e[1])
       /\ summary' = Some(Summary(e[1]))
       /\ pc' = "done"
       /\ term' = "summary"

\* lines 222-232 and 309-312: the shell runs steps[idx]; when execute returns,
\* its outcome is logged and summarised
ExecStep ==
  /\ pc = "exec"
  /\ idx < Len(plan[1].steps)
  /\ \E out \in ShellOutcomes :
       LET r == execute_step(kb, user_input, plan[1], results, idx, out)
       IN /\ kb' = r.kb
          /\ results' = r.results
          /\ idx' = r.idx
          /\ execution' = r.ret
          /\ AfterExecute(r.ret)
  /\ obs' = [obs EXCEPT !.ran = Append(@, Ran(plan[1].steps[idx + 1], execution'))]
  /\ UNCHANGED <<nreq, user_input, comprehension, plan, analysis, succeeded, ret>>

Next ==
  \/ StartRequest
  \/ Comprehend
  \/ Plan
  \/ Examine
  \/ Prompt
  \/ ExecStep

Spec == Init /\ [][Next]_vars

\* the human gives an answer that is recognised
PromptAnswered == Prompt /\ pc' # "prompt"

\* Every call of the LLM, of the search tool and of the shell returns (or
\* raises), and the human, asked again and again, at last answers yes or no.
Fairness ==
  /\ WF_vars(Comprehend)
  /\ WF_vars(Plan)
  /\ WF_vars(Examine)
  /\ WF_vars(PromptAnswered)
  /\ WF_vars(ExecStep)

SpecLive == Spec /\ Fairness

(***************************************************************************)
(* Direct calls of the functions and methods, as a test or another caller  *)
(* makes them: add_to_kb, find_similar_plan, create_plan (with or without  *)
(* an error_context) and execute.  ret records the call and its result.    *)
(***************************************************************************)
\* the error_context of a plan of MaxSteps steps failing at its first step,
\* or timing out at its last
ApiErrorContexts ==
  { ErrorContext(1, "failed", StepsOf(MaxSteps), 0),
    ErrorContext(MaxSteps, "timeout", StepsOf(MaxSteps), MaxSteps - 1) }

\* the plans add_to_kb is called with: two plans that differ
StoredPlans == { PlanObj(StepsOf(1)), PlanObj(StepsOf(2)) }

ApiComprehensions(q) == { DefaultComprehension(q) } \cup ComprehensionObjs

\* a direct call returns to its caller
Returned(r) ==
  /\ pc' = "returned"
  /\ ret' = r

ApiAddToKb ==
  /\ pc = "idle"
  /\ Len(kb) < MaxKb
  /\ \E q \in Queries, p \in StoredPlans :
       /\ kb' = add_to_kb(kb, q, p)
       /\ Returned([call |-> "add_to_kb", query |-> q, plan |-> p])
  /\ UNCHANGED <<log, term, nreq, locals, obs, succeeded>>

ApiFindSimilarPlan ==
  /\ pc = "idle"
  /\ \E q \in Queries :
       Returned([call |-> "find_similar_plan", query |-> q,
                 value |-> find_similar_plan(kb, q)])
  /\ obs' = NoObs(kb, log)
  /\ UNCHANGED <<files, term, nreq, locals, succeeded>>

\* create_plan(q, cd, ec) with the cache looked up (existing), for each
\* comprehension, search outcome and LLM reply
CreatePlanCall(q, ec, existing) ==
  \E cd \in ApiComprehensions(q), sr \in SearchOutcomes, reply \in PlanReplies :
     Returned([call |-> "create_plan", query |-> q, error_context |-> ec,
               reply |-> reply,
               value |-> PlanFrom(existing, q, cd, ec, sr, reply)])

ApiCreatePlan ==
  /\ pc = "idle"
  /\ \E q \in Queries, ec \in {None} \cup { Some(e) : e \in ApiErrorContexts } :
       CreatePlanCall(q, ec, CacheLookup(kb, q, ec))
  /\ UNCHANGED <<files, term, nreq, locals, obs, succeeded>>

\* analyze(q) is called, for each search decision, search outcome and LLM reply
ApiAnalyze ==
  /\ pc = "idle"
  /\ \E q \in Queries, decision \in SearchDecisions, sr \in SearchOutcomes,
        reply \in ComprehensionReplies :
       Returned([call |-> "analyze", query |-> q, decision |-> decision,
                 reply |-> reply, value |-> analyze(q, decision, sr, reply)])
  /\ UNCHANGED <<files, term, nreq, locals, obs, succeeded>>

\* analyze_plan(p) is called, for each LLM reply
ApiAnalyzePlan ==
  /\ pc = "idle"
  /\ \E p \in PlanObjs, reply \in AnalysisReplies :
       Returned([call |-> "analyze_plan", plan |-> p, reply |-> reply,
                 value |-> analyze_plan(p, reply)])
  /\ UNCHANGED <<files, term, nreq, locals, obs, succeeded>>

\* execute(plan, user_query) is called; a plan without steps returns at once
ApiExecute ==
  /\ pc = "idle"
  /\ Len(kb) < MaxKb
  /\ \E q \in Queries, p \in PlanObjs :
       /\ user_input' = q
       /\ plan' = Some(p)
       /\ execution' = IF p.steps = <<>> THEN Some(Outcome("success", <<>>, None))
                       ELSE None
       /\ pc' = IF p.steps = <<>> THEN "returned" ELSE "api_exec"
       /\ obs' = [NoObs(kb, log) EXCEPT !.executed = <<p>>]
       /\ ret' = [call |-> "execute", query |-> q, plan |-> p]
  /\ UNCHANGED <<files, term, nreq, comprehension, analysis, idx, results,
                 summary, succeeded>>

\* lines 222-232: the shell runs steps[idx]
ApiExecStep ==
  /\ pc = "api_exec"
  /\ idx < Len(plan[1].steps)
  /\ \E out \in ShellOutcomes :
       LET r == execute_step(kb, user_input, plan[1], results, idx, out)
       IN /\ kb' = r.kb
          /\ results' = r.results
          /\ idx' = r.idx
          /\ execution' = r.ret
          /\ pc' = IF r.ret = None THEN "api_exec" ELSE "returned"
  /\ obs' = [obs EXCEPT !.ran = Append(@, Ran(plan[1].steps[idx + 1], execution'))]
  /\ UNCHANGED <<log, term, nreq, user_input, comprehension, plan, analysis,
                 summary, succeeded, ret>>

\* the caller goes on; the locals of the call are gone
ApiReturn ==
  /\ pc = "returned"
  /\ pc' = "idle"
  /\ ret' = NoCall
  /\ user_input' = <<>>
  /\ plan' = None
  /\ idx' = 0
  /\ results' = <<>>
  /\ execution' = None
  /\ obs' = NoObs(<<>>, <<>>)
  /\ UNCHANGED <<files, term, nreq, comprehension, analysis, summary, succeeded>>

NextApi ==
  \/ ApiAddToKb
  \/ ApiAnalyze
  \/ ApiAnalyzePlan
  \/ ApiFindSimilarPlan
  \/ ApiCreatePlan
  \/ ApiExecute
  \/ ApiExecStep
  \/ ApiReturn

SpecApi == Init /\ [][NextApi]_vars

(***************************************************************************)
(* Properties.  Those of the pipeline are checked of Spec, those of the    *)
(* functions called directly of SpecApi.                                   *)
(***************************************************************************)
Failed(e) == e # None /\ e[1].status \in { "failed", "timeout" }

\* the audit records the current request has appended
OwnRecords == SubSeqFrom(log, obs.log0 + 1)

\* C1: when execute has returned failed or timeout, process_request calls
\* create_plan a second time for the request, with the error_context of that
\* outcome, before it ends.
C1_RetryAfterFailure ==
  (pc = "done" /\ Failed(execution)) =>
     /\ Len(obs.plan_calls) >= 2
     /\ obs.plan_calls[2] = execution[1].error_context

\* a plan of three steps has failed at its second step, and the request has
\* ended with create_plan called once, without an error_context
C1_EndsAfterFailure ==
  /\ pc = "done"
  /\ Failed(execution)
  /\ Len(plan[1].steps) = 3
  /\ execution[1].error_context[1].command = plan[1].steps[2]
  /\ execution[1].error_context[1].remaining_steps = <<plan[1].steps[3]>>
  /\ obs.plan_calls = <<None>>

\* C2 as stated: whenever the recommendation of the risk assessment is deny,
\* whatever requires_permission is, execute is not called: no command is run
\* and no execution record is logged.
C2_DenyNeverExecutes ==
  (analysis # None /\ analysis[1].recommendation = "deny") =>
     /\ obs.executed = <<>>
     /\ obs.ran = <<>>
     /\ \A i \in 1..Len(OwnRecords) : OwnRecords[i].stage # "execution"

\* C2: whenever the recommendation of the risk assessment is deny and its
\* requires_permission is not false (true, or absent), the request ends
\* cancelled without the human being asked and without execute being called:
\* no command is run, the cache is as it was and no execution record is
\* logged.
C2_DenyWithPermissionRequired ==
  (/\ analysis # None
   /\ analysis[1].recommendation = "deny"
   /\ RequiresPermission(analysis[1])) =>
     /\ pc = "done"
     /\ term = "cancelled"
     /\ ~obs.prompted
     /\ obs.executed = <<>>
     /\ obs.ran = <<>>
     /\ execution = None
     /\ kb = obs.kb0
     /\ \A i \in 1..Len(OwnRecords) : OwnRecords[i].stage # "execution"

\* a plan with steps was denied, with requires_permission absent from the
\* assessment, and the request was cancelled
C2_DeniedAndCancelled ==
  /\ analysis # None
  /\ analysis[1].recommendation = "deny"
  /\ analysis[1].requires_permission = "absent"
  /\ plan[1].steps # <<>>
  /\ term = "cancelled"

\* C3: when the reply to the risk examination holds no JSON object that
\* parses, analyze_plan returns the default (requires_permission true,
\* recommendation request_permission), the human is asked, and execute is
\* entered, and any command run, only after the answer yes.
C3_UnparsedNeedsYes ==
  obs.exam_parsed = "no" =>
     /\ analysis = Some(DefaultAnalysis(plan[1]))
     /\ analysis[1].requires_permission = "true"
     /\ analysis[1].recommendation = "request_permission"
     /\ obs.prompted
     /\ (obs.executed # <<>> \/ obs.ran # <<>> \/ execution # None \/ pc = "exec")
          => obs.answer = "yes"

\* the reply did not parse, the human was asked and answered yes, and a
\* command of the plan has run
C3_UnparsedThenYes ==
  /\ obs.exam_parsed = "no"
  /\ obs.prompted
  /\ obs.answer = "yes"
  /\ obs.executed = <<plan[1]>>
  /\ obs.ran # <<>>

\* C4: when create_plan has returned a plan without steps, the request ends
\* right after the plan_creation record: that record is the last of the two
\* the request has logged, create_plan was called once, and analyze_plan, the
\* gate and execute were not called.
C4_EmptyPlanTerminates ==
  (plan # None /\ plan[1].steps = <<>>) =>
     /\ pc = "done"
     /\ term = "no_plan"
     /\ Len(OwnRecords) = 2
     /\ OwnRecords[2] = Record("plan_creation", plan[1])
     /\ Len(obs.plan_calls) = 1
     /\ obs.examined = <<>>
     /\ analysis = None
     /\ ~obs.prompted
     /\ obs.executed = <<>>
     /\ obs.ran = <<>>
     /\ execution = None
     /\ kb = obs.kb0

\* the LLM's reply did not parse, the plan is the default without steps, and
\* the request has ended
C4_NoPlanCreated ==
  /\ plan = Some(DefaultPlan)
  /\ term = "no_plan"
  /\ log[Len(log)].stage = "plan_creation"

\* C5: execute runs the steps in list order, and when step k is the first to
\* fail or time out it returns at once: the steps after k are not run, the
\* status is what step k did, results are the successes of steps 1..k-1, and
\* error_context has command = step k and remaining_steps = steps k+1..n.
C5_StopsAtFirstFailure ==
  /\ \A i \in 1..Len(obs.ran) :
        /\ obs.ran[i].command = plan[1].steps[i]
        /\ i < Len(obs.ran) => obs.ran[i].outcome = "success"
  /\ Failed(execution) =>
       LET k     == Len(obs.ran)
           steps == plan[1].steps
           n     == Len(plan[1].steps)
       IN /\ pc = "returned"
          /\ k \in 1..n
          /\ obs.ran[k].outcome = execution[1].status
          /\ execution[1].results = [i \in 1..(k - 1) |-> StepResult(steps[i])]
          /\ execution[1].error_context[1].command = steps[k]
          /\ execution[1].error_context[1].remaining_steps =
               [i \in 1..(n - k) |-> steps[k + i]]

\* execute was called with a plan of three steps, whose second step failed
C5_SecondOfThreeFails ==
  /\ pc = "returned"
  /\ ret.call = "execute"
  /\ ret.plan = plan[1]
  /\ Len(plan[1].steps) = 3
  /\ Failed(execution)
  /\ Len(obs.ran) = 2
  /\ execution[1].error_context[1].remaining_steps = <<plan[1].steps[3]>>

\* C6 as stated: find_similar_plan(q) returns p for every (q, p) stored, also
\* when other entries with the query q carry another plan.
C6_LookupReturnsStored ==
  ret.call = "find_similar_plan" =>
     \A i \in 1..Len(kb) :
        kb[i].query = ret.query => ret.value = Some(kb[i].plan)

\* C6: find_similar_plan(q) returns the plan of the earliest entry stored with
\* the query q: it returns p for a stored (q, p) unless an entry stored before
\* it has the query q, and then it returns the plan of the first such entry.
C6_LookupReturnsFirstStored ==
  ret.call = "find_similar_plan" =>
     \A i \in 1..Len(kb) :
        (/\ kb[i].query = ret.query
         /\ \A j \in 1..(i - 1) : kb[j].query # ret.query)
          => ret.value = Some(kb[i].plan)

\* the query looked up was stored twice, with two plans, and the lookup
\* returned the plan stored first
C6_TwoPlansOneQuery ==
  /\ ret.call = "find_similar_plan"
  /\ Len(kb) = 2
  /\ kb[1].query = ret.query
  /\ kb[2].query = ret.query
  /\ kb[1].plan # kb[2].plan
  /\ ret.value = Some(kb[1].plan)

\* C7: a request whose plan came from the cache ends with the cache as it was
\* when the request started.
C7_HitLeavesCacheAlone ==
  (pc = "done" /\ obs.from_cache) => kb = obs.kb0

\* a request whose plan came from the cache has ended with its execution
\* summarised and more entries in the cache
C7_HitStoredAgain ==
  /\ pc = "done"
  /\ term = "summary"
  /\ obs.from_cache
  /\ Len(kb) > Len(obs.kb0)
  /\ kb[Len(kb)] = [query |-> user_input, plan |-> plan[1]]

\* C8: when a request is processed again after its execution returned
\* success, create_plan returns a plan of the cache, with no LLM call and no
\* search made by the planning stage.
C8_SecondRequestHitsCache ==
  (user_input \in succeeded /\ obs.plan_calls # <<>>) =>
     /\ obs.from_cache
     /\ obs.plan_llm = <<>>
     /\ obs.plan_searches = 0
     /\ obs.raised_by # "planning"
     /\ plan # None
     /\ \E i \in 1..Len(obs.kb0) : obs.kb0[i].plan = plan[1]

\* the second of two identical requests, the first executed with success,
\* has its plan, which is the one the first stored
C8_SameRequestAgain ==
  /\ nreq = 2
  /\ user_input \in succeeded
  /\ obs.plan_calls # <<>>
  /\ plan # None
  /\ obs.kb0[1] = [query |-> user_input, plan |-> plan[1]]

\* C9: create_plan called with an error_context does not return a plan of the
\* cache: its result comes from an LLM generation whose prompt carries that
\* error_context (the failed command, its error, the remaining steps).
C9_ErrorContextSkipsCache ==
  (ret.call = "create_plan" /\ ret.error_context # None) =>
     /\ ~ret.value.from_cache
     /\ ret.value.prompt # None
     /\ ret.value.prompt[1].error = ret.error_context

\* create_plan was called with an error_context and returned a plan of the
\* cache, without a prompt to the LLM
C9_CachedDespiteError ==
  /\ ret.call = "create_plan"
  /\ ret.error_context # None
  /\ ret.value.from_cache
  /\ ret.value.prompt = None
  /\ \E i \in 1..Len(kb) : kb[i].plan = ret.value.plan

\* C10: no request ends by an exception of the search tool or of the LLM
\* leaving comprehension, planning or examination.
C10_CollaboratorFailureCaught ==
  obs.raised_by \notin { "comprehension", "planning", "examination" }

\* the LLM raised in the comprehension stage and the request ended there,
\* with nothing logged
C10_LlmFailurePropagates ==
  /\ pc = "done"
  /\ term = "raised"
  /\ obs.raised_by = "comprehension"
  /\ comprehension = None
  /\ OwnRecords = <<>>

\* C11: the audit log is append-only: every step leaves the log as it is or
\* adds exactly one record {stage, data} at its end, the records before it
\* unchanged and in place.
C11_LogAppendOnly ==
  [][ \/ log' = log
      \/ /\ Len(log') = Len(log) + 1
         /\ SubSeq(log', 1, Len(log)) = log
         /\ DOMAIN log'[Len(log')] = { "stage", "data" } ]_vars

\* the log holds the four records of a first request and, after them, the
\* records of a second request
C11_TwoRequestsLogged ==
  /\ nreq = 2
  /\ obs.log0 = 4
  /\ Len(log) = 8
  /\ log[4].stage = "execution"
  /\ log[8].stage = "execution"

\* the stages of the first n records a request logs
StagesAt(n) == SubSeq(<<"comprehension", "plan_creation", "plan_analysis", "execution">>, 1, n)

\* C12: the records a request has added are, in order, those of the stages
\* that have returned: comprehension, plan_creation, plan_analysis, execution,
\* each with the output of its stage, logged before the next stage starts and
\* before the request ends; plan_creation also for a plan without steps,
\* plan_analysis also when the gate denies, execution also when it failed or
\* timed out.
C12_StagesLoggedInOrder ==
  LET n == Len(OwnRecords)
  IN /\ n \in 0..4
     /\ [i \in 1..n |-> OwnRecords[i].stage] = StagesAt(n)
     /\ (comprehension # None) = (n >= 1)
     /\ (plan # None) = (n >= 2)
     /\ (analysis # None) = (n >= 3)
     /\ (execution # None) = (n >= 4)
     /\ n >= 1 => OwnRecords[1].data = comprehension[1]
     /\ n >= 2 => OwnRecords[2].data = plan[1]
     /\ n >= 3 => OwnRecords[3].data = analysis[1]
     /\ n >= 4 => OwnRecords[4].data = execution[1]
     /\ pc = "plan" => n = 1
     /\ pc = "examine" => n = 2
     /\ pc \in { "prompt", "exec" } => n = 3
     /\ term = "no_plan" => n = 2
     /\ term = "cancelled" => n = 3
     /\ term = "summary" => n = 4

\* a request whose execution timed out has ended with its four records
C12_TimeoutLogged ==
  /\ term = "summary"
  /\ execution # None
  /\ execution[1].status = "timeout"
  /\ Len(OwnRecords) = 4
  /\ OwnRecords[4] = Record("execution", execution[1])

\* C13: the human is asked exactly when requires_permission is true or absent
\* and the recommendation is neither approve nor deny.  Without a need of
\* permission the plan is executed without a question; approve executes and
\* deny cancels without a question; otherwise the question is repeated until
\* the answer is y, yes, n or no, and the plan is executed exactly for y, yes.
C13_PromptedIffAmbiguous ==
  analysis # None =>
    LET a    == analysis[1]
        asks == RequiresPermission(a) /\ a.recommendation \notin { "approve", "deny" }
    IN /\ obs.prompted = asks
       /\ ~RequiresPermission(a) => obs.executed = <<plan[1]>>
       /\ (RequiresPermission(a) /\ a.recommendation = "approve")
            => obs.executed = <<plan[1]>>
       /\ (RequiresPermission(a) /\ a.recommendation = "deny")
            => (term = "cancelled" /\ obs.executed = <<>>)
       /\ asks =>
            /\ obs.answer \in { "none", "again" } => (pc = "prompt" /\ obs.executed = <<>>)
            /\ obs.answer = "yes" => obs.executed = <<plan[1]>>
            /\ obs.answer = "no" => (term = "cancelled" /\ obs.executed = <<>>)

\* the assessment requires permission and carries no recommendation: the
\* request has ended by the KeyError of line 203, the human not asked
C13_NoRecommendation ==
  /\ analysis # None
  /\ RequiresPermission(analysis[1])
  /\ analysis[1].recommendation = "absent"
  /\ pc = "done"
  /\ term = "raised"
  /\ obs.raised_by = "gate"
  /\ ~obs.prompted
  /\ obs.executed = <<>>

\* the commands of the current execute call that succeeded
Succeeded == { i \in 1..Len(obs.ran) : obs.ran[i].outcome = "success" }

\* C14: a call of execute(plan, request) appends to the cache one entry
\* (request, plan) per command that succeeded, right after that command, and
\* nothing else: at every point of the call the cache is the cache at the
\* call followed by as many entries (request, plan) as commands have
\* succeeded, k-1 of them when step k is the first to fail and n when all n
\* steps succeed.
C14_OneEntryPerSuccess ==
  (pc \in { "api_exec", "returned" } /\ ret.call = "execute") =>
     /\ Len(kb) = Len(obs.kb0) + Cardinality(Succeeded)
     /\ SubSeq(kb, 1, Len(obs.kb0)) = obs.kb0
     /\ \A i \in (Len(obs.kb0) + 1)..Len(kb) :
           kb[i] = [query |-> ret.query, plan |-> ret.plan]
     /\ Failed(execution) => Len(kb) = Len(obs.kb0) + Len(obs.ran) - 1
     /\ (execution # None /\ execution[1].status = "success")
          => Len(kb) = Len(obs.kb0) + Len(ret.plan.steps)

\* execute was called on a cache of one entry with a plan of three steps, the
\* third of which failed: two entries were added after the one there was
C14_TwoStoredThenFailure ==
  /\ pc = "returned"
  /\ ret.call = "execute"
  /\ Len(ret.plan.steps) = 3
  /\ Failed(execution)
  /\ Len(obs.ran) = 3
  /\ Len(obs.kb0) = 1
  /\ obs.kb0[1].query # ret.query
  /\ Len(kb) = 3

\* the entries of the cache whose query is as similar to q as the threshold asks
CloseTo(q) == { i \in 1..Len(kb) : AboveCutoff(ratio(kb[i].query, q)) }

\* C15: find_similar_plan(query) returns None when the cache is empty or no
\* stored query reaches the threshold; otherwise it returns the plan of a
\* stored query of the highest similarity, and of the entries with that query
\* the plan of the one stored first.  It leaves the cache as it was.
C15_LookupBestMatch ==
  ret.call = "find_similar_plan" =>
     /\ kb = obs.kb0
     /\ (ret.value = None) = (CloseTo(ret.query) = {})
     /\ CloseTo(ret.query) # {} =>
          \E i \in CloseTo(ret.query) :
             /\ \A j \in CloseTo(ret.query) :
                   ~FracLess(ratio(kb[i].query, ret.query),
                             ratio(kb[j].query, ret.query))
             /\ \A j \in 1..(i - 1) : kb[j].query # kb[i].query
             /\ ret.value = Some(kb[i].plan)

\* "aba" was looked up in a cache holding "ab" (similarity 0.8) and then
\* "aba" (1.0) with another plan: the plan stored with "aba" was returned
C15_BestOfTwoClose ==
  /\ ret.call = "find_similar_plan"
  /\ ret.query = <<1, 2, 1>>
  /\ Len(kb) = 2
  /\ kb[1].query = <<1, 2>>
  /\ kb[2].query = <<1, 2, 1>>
  /\ kb[1].plan # kb[2].plan
  /\ ret.value = Some(kb[2].plan)

\* C16: a reply of the LLM without a JSON object that parses gives, in each
\* of the three stages, the default of the stage and no exception: analyze
\* returns {intent: the request, task_type: other, complexity: simple,
\* requirements: [], risks: []}; create_plan, when it asks the LLM, returns
\* {steps: [], description: Failed to create plan, estimated_time: unknown,
\* reversible: false}; analyze_plan returns {risk_level: high,
\* requires_permission: true, dangerous_commands: the steps of the plan,
\* safe_commands: [], recommendation: request_permission, warning_message:
\* Analysis failed}.
C16_ParseFailureDefaults ==
  /\ (ret.call = "analyze" /\ ret.decision # "raise" /\ ret.reply \in TextReplies) =>
        /\ ~ret.value.raised
        /\ ret.value.value =
             [intent |-> ret.query, task_type |-> "other", complexity |-> "simple",
              requirements |-> <<>>, risks |-> <<>>]
  /\ (ret.call = "create_plan" /\ ~ret.value.from_cache /\ ret.reply \in TextReplies) =>
        /\ ~ret.value.raised
        /\ ret.value.plan =
             [steps |-> <<>>, description |-> "Failed to create plan",
              estimated_time |-> "unknown", reversible |-> FALSE]
  /\ (ret.call = "analyze_plan" /\ ret.reply \in TextReplies) =>
        /\ ~ret.value.raised
        /\ ret.value.value =
             [risk_level |-> "high", requires_permission |-> "true",
              dangerous_commands |-> ret.plan.steps, safe_commands |-> <<>>,
              recommendation |-> "request_permission",
              warning_message |-> "Analysis failed"]

\* analyze was called, a search was made, and the LLM's reply held a {...}
\* that json.loads rejects: the default with the request as intent came back
C16_DefaultReturned ==
  /\ ret.call = "analyze"
  /\ ret.decision = "terms"
  /\ ret.reply = [kind |-> "badjson"]
  /\ ret.value.searched
  /\ ret.value.value.intent = ret.query
  /\ ret.value.value.task_type = "other"

\* C17: the cache holds validated plans only: a request whose execution
\* failed or timed out has stored nothing, so its plan is not in the cache for
\* a later lookup to return.
C17_CacheHoldsValidated ==
  (pc = "done" /\ Failed(execution)) => kb = obs.kb0

\* no request has succeeded, the first stored its plan before it failed, and
\* the second request was handed that plan by the cache
C17_FailedPlanServed ==
  /\ nreq = 2
  /\ succeeded = {}
  /\ obs.kb0 # <<>>
  /\ obs.from_cache
  /\ plan = Some(obs.kb0[1].plan)
  /\ Len(plan[1].steps) >= 2

\* C18: a plan is executed only after that plan was examined and cleared:
\* when execute has been called in a request, analyze_plan was called on the
\* same plan in that request, its assessment is the plan_analysis record of
\* the request, and the assessment had requires_permission false, or
\* recommended approve, or the human answered yes; no command runs unless
\* execute was called.
C18_ExecuteAfterCleared ==
  /\ obs.ran # <<>> => obs.executed # <<>>
  /\ obs.executed # <<>> =>
       /\ obs.executed = <<plan[1]>>
       /\ obs.examined = obs.executed
       /\ analysis # None
       /\ Len(OwnRecords) >= 3
       /\ OwnRecords[3] = Record("plan_analysis", analysis[1])
       /\ \/ analysis[1].requires_permission = "false"
          \/ analysis[1].recommendation = "approve"
          \/ (obs.prompted /\ obs.answer = "yes")

\* the examiner's reply parsed and asked for permission, the human said yes,
\* and the commands of the plan have run
C18_ClearedByHuman ==
  /\ obs.exam_parsed = "yes"
  /\ analysis # None
  /\ analysis[1].requires_permission = "true"
  /\ analysis[1].recommendation = "request_permission"
  /\ obs.prompted
  /\ obs.answer = "yes"
  /\ obs.executed = <<plan[1]>>
  /\ Len(obs.ran) = Len(plan[1].steps)

\* C19: the summary reports the counts of the execution: success_count is
\* the number of commands that succeeded and failed_count the number of
\* commands that failed or timed out (1 when the execution stopped on one).
C19_SummaryCounts ==
  summary # None =>
     /\ summary[1].success_count = Cardinality(Succeeded)
     /\ summary[1].failed_count = Len(obs.ran) - Cardinality(Succeeded)

\* the only command of a plan failed, and the summary counts no success and
\* no failure
C19_FailureNotCounted ==
  /\ summary # None
  /\ Len(plan[1].steps) = 1
  /\ execution[1].status = "failed"
  /\ obs.ran = <<[command |-> plan[1].steps[1], outcome |-> "failed"]>>
  /\ summary[1].success_count = 0
  /\ summary[1].failed_count = 0
  /\ summary[1].error_context = execution[1].error_context

\* a request is being processed
Running == pc \in { "comprehend", "plan", "examine", "prompt", "exec" }

\* the request has ended and no call of the LLM raised
EndedWithoutLlmFailure ==
  /\ pc = "done"
  /\ obs.raised_by \notin { "comprehension", "planning", "examination" }

\* at most one call each of create_plan, analyze_plan and execute
OneCallEach ==
  /\ Len(obs.plan_calls) <= 1
  /\ Len(obs.examined) <= 1
  /\ Len(obs.executed) <= 1

=============================================================================
